---- MODULE Spec2Model ----
(***************************************************************************)
(* Enrollment and fee-ledger handlers of the LMS backend                   *)
(* (src/admin_routes.py, src/lms_routes.py, src/lms_models.py).            *)
(*                                                                         *)
(* The four collections the handlers touch (batches, student_profiles,     *)
(* fee_structures, fee_payments) plus the users collection read by the     *)
(* bulk import are the state.  Every handler is one operator taking the    *)
(* request parameters; a specification draws the parameters of each call   *)
(* from small sets.  The handlers of Spec, SpecLedger and SpecRemoval run   *)
(* one after another, each to completion; SpecConc runs the enrollment     *)
(* handlers of two requests at a time, one database call per step.         *)
(*                                                                         *)
(* Money is a Python float in the source.  An amount is modelled as a      *)
(* binary fixed-point number: an integer count of 1/Scale units, where     *)
(* Scale is a power of two.  Request amounts are whole numbers, for which  *)
(* float addition and subtraction are exact; the only rounding operation   *)
(* of the handlers is the division pending / installments, modelled by     *)
(* FloatDiv (round to nearest, ties to even), which is exact precisely     *)
(* when the quotient is representable.                                     *)
(***************************************************************************)
EXTENDS Integers, Sequences, FiniteSets, TLC

(* ------------------------------ bounds --------------------------------- *)

\* number of fractional bits kept by an amount
FracBits == 4

\* number of handler calls in one behaviour
MaxCalls == 3

\* number of fee structures / fee payments the collections may hold
MaxFees == 2

MaxPayments == 2

\* number of rows in one bulk-enroll request
MaxRows == 2

Scale == 2 ^ FracBits

(* --------------------------- program constants ------------------------- *)

\* number of installments of a bulk-enroll row
BulkInstallments == 2

(* ------------------------------ inputs --------------------------------- *)

Students == {"s1", "s2", "s3"}

BatchIds == {"b1", "b2"}

\* a batch id no batch document carries
MissingBatch == "b0"

Courses == [b1 |-> "c1", b2 |-> "c2"]

\* capacities of the two batches
Capacity == [b1 |-> 2, b2 |-> 1]

VARIABLES batches, student_profiles, users, fee_structures, fee_payments,
          last, ncalls, inflight

vars == <<batches, student_profiles, users, fee_structures, fee_payments,
          last, ncalls, inflight>>

(* ------------------------------ helpers -------------------------------- *)

Max(a, b) == IF a >= b THEN a ELSE b

InSeq(x, s) == \E i \in 1..Len(s) : s[i] = x

\* $push for $addToSet
AddToSet_Push(s, x) == Append(s, x)

\* MongoDB $addToSet on an array field
AddToSet(s, x) == IF InSeq(x, s) THEN s ELSE Append(s, x)

\* $pop for $pull: the last element goes, whatever x is
Pull_Pop(s, x) == IF s = << >> THEN s ELSE SubSeq(s, 1, Len(s) - 1)

\* MongoDB $pull on an array field
Pull(s, x) == SelectSeq(s, LAMBDA y : y # x)

RECURSIVE SumAmounts(_)
SumAmounts(s) == IF s = << >> THEN 0 ELSE s[1].amount + SumAmounts(Tail(s))

\* p / n in float arithmetic, n > 0: the representable number nearest to
\* the quotient, ties to even
FloatDiv(p, n) ==
    LET q == p \div n
        r == p % n
    IN  IF 2 * r < n THEN q
        ELSE IF 2 * r > n THEN q + 1
        ELSE IF q % 2 = 0 THEN q ELSE q + 1

\* the request/response record of a call
NoCall == [op |-> "none", batch_id |-> "-", student_id |-> "-",
           fee_structure_id |-> 0, amount |-> 0, total_fee |-> 0,
           discount |-> 0, installments |-> 0, rows |-> << >>,
           enrolled |-> 0, errors |-> << >>, result |-> "none"]

\* the requests the event loop serves at a time
Tasks == {"t1", "t2"}

\* the value of "batch" before find_one has returned a document
NoBatch == [course_id |-> "-", max_students |-> 0, enrolled_students |-> << >>]

\* a task that serves no request: its place in the handler (pc), the
\* request with its response, the locals "batch" and "fee" (the document
\* read, if any) and the loop index
Idle == [pc |-> "idle", req |-> NoCall, batch |-> NoBatch, idx |-> 0,
         fee |-> << >>]

(* ------------------------------- state --------------------------------- *)

\* Batch(...) of lms_models.py as stored by create_batch: empty roster
NewBatch(course, max) ==
    [course_id |-> course, max_students |-> max, enrolled_students |-> << >>]

\* StudentProfile(...) as stored at signup: no batch, no courses
NewProfile == [batch_id |-> "null", enrolled_courses |-> << >>,
               status |-> "active"]

Init ==
    /\ batches = [b \in BatchIds |-> NewBatch(Courses[b], Capacity[b])]
    /\ users = {"s1", "s2"}
    /\ student_profiles = [s \in {"s1", "s2"} |-> NewProfile]
    /\ fee_structures = << >>
    /\ fee_payments = << >>
    /\ last = NoCall
    /\ ncalls = 0
    /\ inflight = [t \in Tasks |-> Idle]

(* --------------------------- Enrollment -------------------------------- *)

\* the capacity check with > for >=
IsFull_Strict(batch) == Len(batch.enrolled_students) > batch.max_students

\* len(batch.get("enrolled_students", [])) >= batch.get("max_students", 30)
IsFull(batch) == Len(batch.enrolled_students) >= batch.max_students

\* the roster write with the capacity test in its filter
RosterAdd_Guarded(bs, b, s) ==
    IF Len(bs[b].enrolled_students) < bs[b].max_students
    THEN [bs EXCEPT ![b].enrolled_students = AddToSet(@, s)]
    ELSE bs

\* db.batches.update_one({"id": b}, {"$addToSet": {"enrolled_students": s}})
RosterAdd(bs, b, s) ==
    [bs EXCEPT ![b].enrolled_students = AddToSet(@, s)]

\* the profile update with $set for $addToSet on enrolled_courses
ProfileEnroll_Replace(ps, s, b, course) ==
    IF s \in DOMAIN ps
    THEN [ps EXCEPT ![s].batch_id = b, ![s].enrolled_courses = <<course>>]
    ELSE ps

\* db.student_profiles.update_one({"user_id": s}, {"$set": {"batch_id": b},
\*   "$addToSet": {"enrolled_courses": course}}): no document, no change
ProfileEnroll(ps, s, b, course) ==
    IF s \in DOMAIN ps
    THEN [ps EXCEPT ![s].batch_id = b,
                    ![s].enrolled_courses = AddToSet(@, course)]
    ELSE ps

\* db.student_profiles.update_one(..., {"$set": {"batch_id": b, "status":
\*   "active"}, "$addToSet": {"enrolled_courses": course}}, upsert=True)
ProfileUpsert(ps, s, b, course) ==
    IF s \in DOMAIN ps
    THEN [ps EXCEPT ![s].batch_id = b,
                    ![s].status = "active",
                    ![s].enrolled_courses = AddToSet(@, course)]
    ELSE [x \in DOMAIN ps \cup {s} |->
            IF x = s
            THEN [batch_id |-> b, enrolled_courses |-> <<course>>,
                  status |-> "active"]
            ELSE ps[x]]

\* the body shared by enroll_student (admin) and enroll_student_in_batch (LMS)
PlainEnroll(opname, b, s) ==
    /\ ncalls < MaxCalls
    /\ ncalls' = ncalls + 1
    /\ LET req == [NoCall EXCEPT !.op = opname, !.batch_id = b,
                                 !.student_id = s]
       IN  IF b \notin DOMAIN batches
           THEN /\ last' = [req EXCEPT !.result = "NotFound"]
                /\ UNCHANGED <<batches, student_profiles>>
           ELSE IF IsFull(batches[b])
           THEN /\ last' = [req EXCEPT !.result = "CapacityExceeded"]
                /\ UNCHANGED <<batches, student_profiles>>
           ELSE /\ batches' = RosterAdd(batches, b, s)
                /\ student_profiles' =
                      ProfileEnroll(student_profiles, s, b,
                                    batches[b].course_id)
                /\ last' = [req EXCEPT !.result = "ok"]
    /\ UNCHANGED <<users, fee_structures, fee_payments, inflight>>

enroll_student(b, s) == PlainEnroll("enroll_student", b, s)

enroll_student_in_batch(b, s) == PlainEnroll("enroll_student_in_batch", b, s)

\* the profile update of remove_student_from_batch with enrolled_courses
\* reset as well
ProfileClear_Courses(ps, s) ==
    IF s \in DOMAIN ps
    THEN [ps EXCEPT ![s].batch_id = "null", ![s].enrolled_courses = << >>]
    ELSE ps

\* db.student_profiles.update_one({"user_id": s}, {"$set": {"batch_id":
\*   None}}): no document, no change
ProfileClear(ps, s) ==
    IF s \in DOMAIN ps THEN [ps EXCEPT ![s].batch_id = "null"] ELSE ps

\* remove_student_from_batch: $pull from the roster, batch_id := None
remove_student_from_batch(b, s) ==
        /\ ncalls < MaxCalls
        /\ ncalls' = ncalls + 1
        /\ batches' = IF b \in DOMAIN batches
                      THEN [batches EXCEPT ![b].enrolled_students = Pull(@, s)]
                      ELSE batches
        /\ student_profiles' = ProfileClear(student_profiles, s)
        /\ last' = [NoCall EXCEPT !.op = "remove_student_from_batch",
                                  !.batch_id = b, !.student_id = s,
                                  !.result = "ok"]
        /\ UNCHANGED <<users, fee_structures, fee_payments, inflight>>

(* ----------------------------- Fee ledger ------------------------------ *)

\* the loop "for i in range(n)" building installment_list: n entries, each
\* carrying per_installment
InstallmentList(per, n) ==
    IF n <= 0 THEN << >>
    ELSE [i \in 1..n |->
            [installment_number |-> i, amount |-> per, status |-> "pending"]]

\* FeeStructure(...) of lms_models.py: paid_amount defaults to 0
FeeStructure(s, course, b, total, pending, insts, discount) ==
    [student_id |-> s, course_id |-> course, batch_id |-> b,
     total_fee |-> total, paid_amount |-> 0, pending_amount |-> pending,
     installments |-> insts, discount_applied |-> discount]

\* the fee condition with >= for >
CreatesFee_NonNegative(total) == total >= 0

\* the fee part of enroll_student_with_fees: "if total_fee > 0"
CreatesFee(total) == total > 0

\* the two tests in the other order
EnrollPrecondition_DuplicateFirst(doc, s) ==
    IF InSeq(s, doc.enrolled_students) THEN "AlreadyEnrolled"
    ELSE IF IsFull(doc) THEN "CapacityExceeded"
    ELSE "ok"

\* the tests of enroll_student_with_fees on the batch document, in the
\* order of the code: "Batch is full", then "Student already enrolled"
EnrollPrecondition(doc, s) ==
    IF IsFull(doc) THEN "CapacityExceeded"
    ELSE IF InSeq(s, doc.enrolled_students) THEN "AlreadyEnrolled"
    ELSE "ok"

enroll_student_with_fees(b, s, total, discount, n) ==
        LET pending  == total - discount
            req == [NoCall EXCEPT !.op = "enroll_student_with_fees",
                                  !.batch_id = b, !.student_id = s,
                                  !.total_fee = total, !.discount = discount,
                                  !.installments = n]
        IN
        /\ ncalls < MaxCalls
        /\ ncalls' = ncalls + 1
        /\ IF b \notin DOMAIN batches
           THEN /\ last' = [req EXCEPT !.result = "NotFound"]
                /\ UNCHANGED <<batches, student_profiles, fee_structures>>
           ELSE IF EnrollPrecondition(batches[b], s) # "ok"
           THEN /\ last' = [req EXCEPT !.result =
                                  EnrollPrecondition(batches[b], s)]
                /\ UNCHANGED <<batches, student_profiles, fee_structures>>
           ELSE /\ batches' = RosterAdd(batches, b, s)
                /\ student_profiles' =
                      ProfileUpsert(student_profiles, s, b,
                                    batches[b].course_id)
                /\ IF ~CreatesFee(total)
                   THEN /\ last' = [req EXCEPT !.result = "ok"]
                        /\ UNCHANGED fee_structures
                   ELSE IF n = 0
                   \* pending / installments raises ZeroDivisionError after
                   \* the roster and the profile were written
                   THEN /\ last' = [req EXCEPT !.result = "ServerError"]
                        /\ UNCHANGED fee_structures
                   ELSE /\ Len(fee_structures) < MaxFees
                        /\ fee_structures' =
                             Append(fee_structures,
                               FeeStructure(s, batches[b].course_id, b, total,
                                 pending,
                                 InstallmentList(
                                   IF n > 0 THEN FloatDiv(pending, n) ELSE 0,
                                   n),
                                 discount))
                        /\ last' = [req EXCEPT !.result = "ok"]
        /\ UNCHANGED <<users, fee_payments, inflight>>

create_fee_structure(s, course, b, total, insts, discount) ==
    LET pending == total - discount
    IN  /\ ncalls < MaxCalls
        /\ ncalls' = ncalls + 1
        /\ Len(fee_structures) < MaxFees
        /\ fee_structures' =
              Append(fee_structures,
                     FeeStructure(s, course, b, total, pending, insts,
                                  discount))
        /\ last' = [NoCall EXCEPT !.op = "create_fee_structure",
                                  !.batch_id = b, !.student_id = s,
                                  !.total_fee = total,
                                  !.discount = discount,
                                  !.installments = Len(insts),
                                  !.fee_structure_id = Len(fee_structures) + 1,
                                  !.result = "ok"]
        /\ UNCHANGED <<batches, student_profiles, users, fee_payments, inflight>>

\* find_one without the id filter: the first document of the collection
FindFee_First(fees, id) ==
    IF id \in 1..Len(fees) THEN <<fees[id]>>
    ELSE IF Len(fees) > 0 THEN <<fees[1]>> ELSE << >>

\* db.fee_structures.find_one({"id": fee_structure_id}): the document in a
\* one-element sequence, or the empty sequence for None
FindFee(fees, id) == IF id \in 1..Len(fees) THEN <<fees[id]>> ELSE << >>

\* len([i for i in fee["installments"] if i.get("status") == "paid"]) + 1
InstallmentNumber(fee) ==
    Cardinality({i \in 1..Len(fee.installments) :
                    fee.installments[i].status = "paid"}) + 1

\* new_paid without the addition
NewPaid_Unchanged(fee, amount) == fee.paid_amount

\* new_paid held at total_fee
NewPaid_Capped(fee, amount) ==
    IF fee.paid_amount + amount > fee.total_fee
    THEN fee.total_fee
    ELSE fee.paid_amount + amount

\* new_paid = fee["paid_amount"] + amount
NewPaid(fee, amount) == fee.paid_amount + amount

\* the stored pending amount without the clamp
NewPending_NoClamp(fee, amount) == fee.pending_amount - amount

\* new_pending = fee["pending_amount"] - amount, stored as max(0, new_pending)
NewPending(fee, amount) == Max(0, fee.pending_amount - amount)

\* FeePayment(...) of lms_models.py
FeePayment(id, fee, amount, method, receipt) ==
    [fee_structure_id |-> id, student_id |-> fee.student_id,
     amount |-> amount, payment_method |-> method,
     installment_number |-> InstallmentNumber(fee),
     receipt_number |-> receipt]

\* a replace of the stored payments for the insert
InsertPayment_Replace(payments, p) == <<p>>

\* an insert that skips a payment equal to a stored one but for the receipt
InsertPayment_Dedup(payments, p) ==
    IF \E i \in 1..Len(payments) :
          /\ payments[i].fee_structure_id = p.fee_structure_id
          /\ payments[i].amount = p.amount
          /\ payments[i].payment_method = p.payment_method
    THEN payments
    ELSE Append(payments, p)

\* db.fee_payments.insert_one(payment.dict())
InsertPayment(payments, p) == Append(payments, p)

\* the update with the first installment marked paid as well
UpdateFee_MarkPaid(fees, id, paid, pending) ==
    IF id \in 1..Len(fees)
    THEN [fees EXCEPT ![id].paid_amount = paid,
                      ![id].pending_amount = pending,
                      ![id].installments =
                         IF @ = << >> THEN @
                         ELSE [@ EXCEPT ![1].status = "paid"]]
    ELSE fees

\* db.fee_structures.update_one({"id": id}, {"$set": {"paid_amount": paid,
\*   "pending_amount": pending}}): no matching document, no change
UpdateFee(fees, id, paid, pending) ==
    IF id \in 1..Len(fees)
    THEN [fees EXCEPT ![id].paid_amount = paid,
                      ![id].pending_amount = pending]
    ELSE fees

record_fee_payment(id, amount, method, receipt) ==
    LET req == [NoCall EXCEPT !.op = "record_fee_payment",
                              !.fee_structure_id = id, !.amount = amount]
        found == FindFee(fee_structures, id)
    IN
    /\ ncalls < MaxCalls
    /\ ncalls' = ncalls + 1
    /\ IF found = << >>
       THEN /\ last' = [req EXCEPT !.result = "NotFound"]
            /\ UNCHANGED <<fee_structures, fee_payments>>
       ELSE LET fee == found[1]
            IN  /\ Len(fee_payments) < MaxPayments
                /\ fee_payments' =
                      InsertPayment(fee_payments,
                             FeePayment(id, fee, amount, method, receipt))
                /\ fee_structures' =
                      UpdateFee(fee_structures, id, NewPaid(fee, amount),
                                NewPending(fee, amount))
                /\ last' = [req EXCEPT !.result = "ok"]
    /\ UNCHANGED <<batches, student_profiles, users, inflight>>

(* ----------------------------- Bulk import ----------------------------- *)

\* one row of the loop of bulk_enroll_students.  roster0 is the roster of
\* the batch document read once before the loop; st carries the collections
\* the loop writes and the two results it returns
BulkRow(b, course, roster0, row, idx, st) ==
    LET sid == row.email
        us  == st.users \cup {sid}
        total    == row.total_fee
        discount == row.discount
        pending  == total - discount
    IN  IF InSeq(sid, roster0)
        THEN [st EXCEPT !.users = us,
                        !.errors = Append(@, [row |-> idx,
                                              error |-> "Already enrolled"])]
        ELSE [st EXCEPT
                !.users = us,
                !.roster = AddToSet(@, sid),
                !.fees = IF total > 0
                         THEN Append(@,
                                FeeStructure(sid, course, b, total, pending,
                                  InstallmentList(
                                    FloatDiv(pending, BulkInstallments),
                                    BulkInstallments),
                                  discount))
                         ELSE @,
                !.enrolled = @ + 1]

RECURSIVE BulkRows(_, _, _, _, _, _)
BulkRows(b, course, roster0, rows, idx, st) ==
    IF idx > Len(rows) THEN st
    ELSE BulkRows(b, course, roster0, rows, idx + 1,
                  BulkRow(b, course, roster0, rows[idx], idx, st))

bulk_enroll_students(b, rows) ==
    LET req == [NoCall EXCEPT !.op = "bulk_enroll_students", !.batch_id = b,
                              !.rows = rows]
    IN
    /\ ncalls < MaxCalls
    /\ ncalls' = ncalls + 1
    /\ IF b \notin DOMAIN batches
       THEN /\ last' = [req EXCEPT !.result = "NotFound"]
            /\ UNCHANGED <<batches, users, fee_structures>>
       ELSE LET st == BulkRows(b, batches[b].course_id,
                               batches[b].enrolled_students, rows, 1,
                               [users |-> users,
                                roster |-> batches[b].enrolled_students,
                                fees |-> fee_structures,
                                enrolled |-> 0, errors |-> << >>])
            IN  /\ Len(st.fees) <= MaxFees
                /\ batches' = [batches EXCEPT ![b].enrolled_students = st.roster]
                /\ users' = st.users
                /\ fee_structures' = st.fees
                /\ last' = [req EXCEPT !.result = "ok",
                                       !.enrolled = st.enrolled,
                                       !.errors = st.errors]
    /\ UNCHANGED <<student_profiles, fee_payments, inflight>>

(* ------------------------ handlers, await by await ---------------------- *)

\* The handlers are coroutines of one event loop: a handler runs alone from
\* one "await" of a database call to the next, and other requests run while
\* it waits.  Each action below is one database call of a handler together
\* with the code up to the next await; inflight[t] keeps the handler's
\* locals in between.  The response of a request stays in inflight[t].req.

Free(t) == inflight[t].pc \in {"idle", "done"}

\* return / raise HTTPException: the handler ends with a response
Return(st, result) == [st EXCEPT !.pc = "done", !.req.result = result]

\* batch = await db.batches.find_one({"id": b}) and the checks on it
enroll_find(t, opname, b, s, total, discount, n) ==
    LET req == [NoCall EXCEPT !.op = opname, !.batch_id = b,
                              !.student_id = s, !.total_fee = total,
                              !.discount = discount, !.installments = n]
        doc == IF b \in DOMAIN batches THEN batches[b] ELSE NoBatch
        st  == [pc |-> "add", req |-> req, batch |-> doc, idx |-> 0,
                fee |-> << >>]
    IN
    /\ Free(t)
    /\ ncalls < MaxCalls
    /\ ncalls' = ncalls + 1
    /\ inflight' = [inflight EXCEPT ![t] =
          IF b \notin DOMAIN batches THEN Return(st, "NotFound")
          ELSE IF opname = "enroll_student_with_fees"
               THEN IF EnrollPrecondition(doc, s) # "ok"
                    THEN Return(st, EnrollPrecondition(doc, s))
                    ELSE st
          ELSE IF IsFull(doc) THEN Return(st, "CapacityExceeded")
          ELSE st]
    /\ UNCHANGED <<batches, student_profiles, users, fee_structures,
                   fee_payments, last>>

\* await db.batches.update_one({"id": b}, {"$addToSet": ...})
enroll_add(t) ==
    LET st == inflight[t]
    IN
    /\ st.pc = "add"
    /\ batches' = RosterAdd(batches, st.req.batch_id, st.req.student_id)
    /\ inflight' = [inflight EXCEPT ![t].pc = "profile"]
    /\ UNCHANGED <<student_profiles, users, fee_structures, fee_payments,
                   last, ncalls>>

\* await db.student_profiles.update_one(...), then the return of the plain
\* handlers or the fee test of enroll_student_with_fees
enroll_profile(t) ==
    LET st == inflight[t]
        withFees == st.req.op = "enroll_student_with_fees"
    IN
    /\ st.pc = "profile"
    /\ student_profiles' =
          IF withFees
          THEN ProfileUpsert(student_profiles, st.req.student_id,
                             st.req.batch_id, st.batch.course_id)
          ELSE ProfileEnroll(student_profiles, st.req.student_id,
                             st.req.batch_id, st.batch.course_id)
    /\ inflight' = [inflight EXCEPT ![t] =
          IF ~withFees \/ ~CreatesFee(st.req.total_fee) THEN Return(st, "ok")
          ELSE IF st.req.installments = 0 THEN Return(st, "ServerError")
          ELSE [st EXCEPT !.pc = "fee"]]
    /\ UNCHANGED <<batches, users, fee_structures, fee_payments, last, ncalls>>

\* the failure followed by a $pull of the student, undoing the roster add
enroll_fail_Undo(t) ==
    LET st == inflight[t]
    IN
    /\ st.pc = "profile"
    /\ batches' = [batches EXCEPT ![st.req.batch_id].enrolled_students =
                      Pull(@, st.req.student_id)]
    /\ inflight' = [inflight EXCEPT ![t] = Return(st, "WriteFailed")]
    /\ UNCHANGED <<student_profiles, users, fee_structures, fee_payments,
                   last, ncalls>>

\* await db.student_profiles.update_one(...) raises (the database call
\* fails): no try/except and no transaction around the two writes, so the
\* handler ends there with an error response and the roster add stays
enroll_fail(t) ==
    LET st == inflight[t]
    IN
    /\ st.pc = "profile"
    /\ inflight' = [inflight EXCEPT ![t] = Return(st, "WriteFailed")]
    /\ UNCHANGED <<batches, student_profiles, users, fee_structures,
                   fee_payments, last, ncalls>>

\* await db.fee_structures.insert_one(fee_structure.dict())
enroll_fee(t) ==
    LET st == inflight[t]
        pending == st.req.total_fee - st.req.discount
        n == st.req.installments
    IN
    /\ st.pc = "fee"
    /\ Len(fee_structures) < MaxFees
    /\ fee_structures' =
          Append(fee_structures,
                 FeeStructure(st.req.student_id, st.batch.course_id,
                              st.req.batch_id, st.req.total_fee, pending,
                              InstallmentList(
                                IF n > 0 THEN FloatDiv(pending, n) ELSE 0, n),
                              st.req.discount))
    /\ inflight' = [inflight EXCEPT ![t] = Return(st, "ok")]
    /\ UNCHANGED <<batches, student_profiles, users, fee_payments, last,
                   ncalls>>

\* remove_student_from_batch: await db.batches.update_one(..., {"$pull": ...})
remove_pull(t, b, s) ==
    /\ Free(t)
    /\ ncalls < MaxCalls
    /\ ncalls' = ncalls + 1
    /\ batches' = IF b \in DOMAIN batches
                  THEN [batches EXCEPT ![b].enrolled_students = Pull(@, s)]
                  ELSE batches
    /\ inflight' = [inflight EXCEPT ![t] =
          [pc |-> "clear",
           req |-> [NoCall EXCEPT !.op = "remove_student_from_batch",
                                  !.batch_id = b, !.student_id = s],
           batch |-> NoBatch, idx |-> 0, fee |-> << >>]]
    /\ UNCHANGED <<student_profiles, users, fee_structures, fee_payments, last>>

\* remove_student_from_batch: await db.student_profiles.update_one(...,
\*   {"$set": {"batch_id": None}}) and the return
remove_clear(t) ==
    LET st == inflight[t]
    IN
    /\ st.pc = "clear"
    /\ student_profiles' = ProfileClear(student_profiles, st.req.student_id)
    /\ inflight' = [inflight EXCEPT ![t] = Return(st, "ok")]
    /\ UNCHANGED <<batches, users, fee_structures, fee_payments, last, ncalls>>

\* bulk_enroll_students: the end of a row, "continue" included: the next
\* row, or the return after the last one
BulkNext(st) ==
    IF st.idx >= Len(st.req.rows)
    THEN Return(st, "ok")
    ELSE [st EXCEPT !.pc = "row", !.idx = @ + 1]

\* bulk_enroll_students: "if student_id in batch.get("enrolled_students")",
\* tested on the document read before the loop
BulkCheck(st, sid) ==
    IF InSeq(sid, st.batch.enrolled_students)
    THEN BulkNext([st EXCEPT !.req.errors =
                      Append(@, [row |-> st.idx, error |-> "Already enrolled"])])
    ELSE [st EXCEPT !.pc = "bulk_add"]

\* bulk_enroll_students: batch = await db.batches.find_one({"id": b})
bulk_find(t, b, rows) ==
    LET req == [NoCall EXCEPT !.op = "bulk_enroll_students", !.batch_id = b,
                              !.rows = rows]
        doc == IF b \in DOMAIN batches THEN batches[b] ELSE NoBatch
        st  == [pc |-> "row", req |-> req, batch |-> doc, idx |-> 0,
                fee |-> << >>]
    IN
    /\ Free(t)
    /\ ncalls < MaxCalls
    /\ ncalls' = ncalls + 1
    /\ inflight' = [inflight EXCEPT ![t] =
          IF b \notin DOMAIN batches THEN Return(st, "NotFound")
          ELSE BulkNext(st)]
    /\ UNCHANGED <<batches, student_profiles, users, fee_structures,
                   fee_payments, last>>

\* bulk_enroll_students: existing = await db.users.find_one({"email": ...})
bulk_user(t) ==
    LET st  == inflight[t]
        sid == st.req.rows[st.idx].email
    IN
    /\ st.pc = "row"
    /\ inflight' = [inflight EXCEPT ![t] =
          IF sid \in users THEN BulkCheck(st, sid)
          ELSE [st EXCEPT !.pc = "newuser"]]
    /\ UNCHANGED <<batches, student_profiles, users, fee_structures,
                   fee_payments, last, ncalls>>

\* bulk_enroll_students: await db.users.insert_one(new_user).  A user is
\* named by the email, so two tasks that insert the same email at a time
\* leave one user here and two users with different ids in the database
bulk_newuser(t) ==
    LET st  == inflight[t]
        sid == st.req.rows[st.idx].email
    IN
    /\ st.pc = "newuser"
    /\ users' = users \cup {sid}
    /\ inflight' = [inflight EXCEPT ![t] = BulkCheck(st, sid)]
    /\ UNCHANGED <<batches, student_profiles, fee_structures, fee_payments,
                   last, ncalls>>

\* bulk_enroll_students: await db.batches.update_one(..., {"$addToSet": ...})
bulk_add(t) ==
    LET st  == inflight[t]
        row == st.req.rows[st.idx]
    IN
    /\ st.pc = "bulk_add"
    /\ batches' = RosterAdd(batches, st.req.batch_id, row.email)
    /\ inflight' = [inflight EXCEPT ![t] =
          IF row.total_fee > 0
          THEN [st EXCEPT !.pc = "bulk_fee"]
          ELSE BulkNext([st EXCEPT !.req.enrolled = @ + 1])]
    /\ UNCHANGED <<student_profiles, users, fee_structures, fee_payments,
                   last, ncalls>>

\* bulk_enroll_students: await db.fee_structures.insert_one(fee.dict())
bulk_fee(t) ==
    LET st  == inflight[t]
        row == st.req.rows[st.idx]
        pending == row.total_fee - row.discount
    IN
    /\ st.pc = "bulk_fee"
    /\ Len(fee_structures) < MaxFees
    /\ fee_structures' =
          Append(fee_structures,
                 FeeStructure(row.email, st.batch.course_id, st.req.batch_id,
                              row.total_fee, pending,
                              InstallmentList(
                                FloatDiv(pending, BulkInstallments),
                                BulkInstallments),
                              row.discount))
    /\ inflight' = [inflight EXCEPT ![t] =
          BulkNext([st EXCEPT !.req.enrolled = @ + 1])]
    /\ UNCHANGED <<batches, student_profiles, users, fee_payments, last,
                   ncalls>>

\* record_fee_payment: fee = await db.fee_structures.find_one({"id": id})
pay_find(t, id, amount) ==
    LET req == [NoCall EXCEPT !.op = "record_fee_payment",
                              !.fee_structure_id = id, !.amount = amount]
        st  == [pc |-> "insert", req |-> req, batch |-> NoBatch, idx |-> 0,
                fee |-> FindFee(fee_structures, id)]
    IN
    /\ Free(t)
    /\ ncalls < MaxCalls
    /\ ncalls' = ncalls + 1
    /\ inflight' = [inflight EXCEPT ![t] =
          IF st.fee = << >> THEN Return(st, "NotFound") ELSE st]
    /\ UNCHANGED <<batches, student_profiles, users, fee_structures,
                   fee_payments, last>>

\* record_fee_payment: await db.fee_payments.insert_one(payment.dict()).
\* The payment is built from the document read by find_one; the method of
\* the request and the receipt number play no part before this call
pay_insert(t, method, receipt) ==
    LET st == inflight[t]
    IN
    /\ st.pc = "insert"
    /\ Len(fee_payments) < MaxPayments
    /\ fee_payments' =
          InsertPayment(fee_payments,
                        FeePayment(st.req.fee_structure_id, st.fee[1],
                                   st.req.amount, method, receipt))
    /\ inflight' = [inflight EXCEPT ![t].pc = "update"]
    /\ UNCHANGED <<batches, student_profiles, users, fee_structures, last,
                   ncalls>>

\* record_fee_payment: await db.fee_structures.update_one(..., {"$set":
\*   ...}) with new_paid and new_pending computed from the document read by
\* find_one, and the return
pay_update(t) ==
    LET st == inflight[t]
    IN
    /\ st.pc = "update"
    /\ fee_structures' =
          UpdateFee(fee_structures, st.req.fee_structure_id,
                    NewPaid(st.fee[1], st.req.amount),
                    NewPending(st.fee[1], st.req.amount))
    /\ inflight' = [inflight EXCEPT ![t] = Return(st, "ok")]
    /\ UNCHANGED <<batches, student_profiles, users, fee_payments, last,
                   ncalls>>

(* --------------------------- specifications ---------------------------- *)

\* Spec: the enrollment handlers on the two batches and on a missing
\* batch.  A call on the missing batch is tried for one student only: the
\* handlers return before they look at the student
StudentsFor(b) == IF b = MissingBatch THEN {"s1"} ELSE Students

BatchArgs == BatchIds \cup {MissingBatch}

\* (total_fee, discount, installments) of the enrollment requests of Spec
EnrollFees == {<<0, 0, 2>>, <<4, 0, 2>>, <<4, 0, 0>>}

\* the rows a bulk request may carry: whole-number amounts
BulkRowsOf(emails, fees, discounts) ==
    [email : emails, total_fee : {f * Scale : f \in fees},
     discount : {d * Scale : d \in discounts}]

SeqsUpTo(S, n) == UNION {[1..k -> S] : k \in 0..n}

\* the rows of the bulk requests of Spec: an existing user without a fee
\* and a new user with one
EnrollBulkRows ==
    {[email |-> "s2", total_fee |-> 0, discount |-> 0],
     [email |-> "s3", total_fee |-> 4 * Scale, discount |-> 0]}

Next ==
    \/ \E b \in BatchArgs : \E s \in StudentsFor(b) : enroll_student(b, s)
    \/ \E b \in BatchArgs : \E s \in StudentsFor(b) : enroll_student_in_batch(b, s)
    \/ \E b \in BatchArgs : \E s \in StudentsFor(b) :
          remove_student_from_batch(b, s)
    \/ \E b \in BatchArgs : \E s \in StudentsFor(b), f \in EnrollFees :
          enroll_student_with_fees(b, s, f[1] * Scale, f[2] * Scale, f[3])
    \/ \E b \in BatchArgs :
       \E rows \in SeqsUpTo(EnrollBulkRows,
                            IF b = MissingBatch THEN 0 ELSE MaxRows) :
          bulk_enroll_students(b, rows)

Spec == Init /\ [][Next]_vars

\* SpecLedger: the handlers that write the fee ledger.  The amounts are
\* whole numbers, negative and zero included: the parameters are plain
\* floats the handlers never validate

\* (total_fee, discount, status of the one installment) of the
\* create_fee_structure requests; the installments parameter is a
\* caller-built list
CreateRequests ==
    {<<4, 0, "pending">>, <<4, 0, "paid">>, <<4, 5, "pending">>,
     <<-1, 0, "pending">>}

CallerInstallments(pending, status) ==
    <<[installment_number |-> 1, amount |-> pending, status |-> status]>>

\* (total_fee, discount, installments) of the enroll-with-fees requests
LedgerEnrollFees ==
    {<<4, 0, 2>>, <<4, 0, 3>>, <<4, 5, 2>>, <<4, -1, 1>>, <<-1, 0, 2>>,
     <<4, 0, -1>>, <<4, 0, 0>>}

PayAmounts == {-1, 0, 3, 5}

\* the six characters of uuid4 that end a receipt number
ReceiptCodes == {"A1", "B2"}

PaymentMethods == {"cash"}

\* the ids of the stored structures and one id no structure carries
FeeIdArgs == 1..(Len(fee_structures) + 1)

NextLedger ==
    \/ \E c \in CreateRequests :
          create_fee_structure("s1", Courses["b1"], "b1", c[1] * Scale,
                               CallerInstallments((c[1] - c[2]) * Scale, c[3]),
                               c[2] * Scale)
    \/ \E s \in {"s1", "s2"}, f \in LedgerEnrollFees :
          enroll_student_with_fees("b1", s, f[1] * Scale, f[2] * Scale, f[3])
    \/ \E rows \in SeqsUpTo(BulkRowsOf({"s3"}, {4}, {0, 5}), MaxRows) :
          bulk_enroll_students("b1", rows)
    \/ \E id \in FeeIdArgs, a \in PayAmounts, m \in PaymentMethods,
          r \in ReceiptCodes :
          record_fee_payment(id, a * Scale, m, r)

SpecLedger == Init /\ [][NextLedger]_vars

\* SpecRemoval: removals among enrollments with fees and payments
NextRemoval ==
    \/ \E b \in BatchIds, s \in {"s1", "s2"} :
          enroll_student_with_fees(b, s, 4 * Scale, 0, 2)
    \/ \E id \in FeeIdArgs, r \in ReceiptCodes :
          record_fee_payment(id, 3 * Scale, "cash", r)
    \/ \E b \in BatchArgs : \E s \in StudentsFor(b) :
          remove_student_from_batch(b, s)

SpecRemoval == Init /\ [][NextRemoval]_vars

\* SpecConc: two tasks serve enrollment requests on batch b2, which has
\* one seat, each database call of one task between any two of the other
ConcStudents == {"s1", "s2"}

\* (total_fee, discount, installments) of the enroll-with-fees requests
ConcFees == {<<0, 0, 2>>, <<4, 0, 2>>}

\* the bulk requests of SpecConc: an existing user twice, and a new user
\* with a fee
ConcBulkRequests ==
    {<<[email |-> "s2", total_fee |-> 0, discount |-> 0],
       [email |-> "s2", total_fee |-> 0, discount |-> 0]>>,
     <<[email |-> "s3", total_fee |-> 4 * Scale, discount |-> 0]>>}

NextConc ==
    \E t \in Tasks :
       \/ \E s \in ConcStudents :
             enroll_find(t, "enroll_student", "b2", s, 0, 0, 0)
       \/ \E s \in ConcStudents :
             enroll_find(t, "enroll_student_in_batch", "b2", s, 0, 0, 0)
       \/ \E s \in ConcStudents, f \in ConcFees :
             enroll_find(t, "enroll_student_with_fees", "b2", s,
                         f[1] * Scale, f[2] * Scale, f[3])
       \/ enroll_add(t)
       \/ enroll_profile(t)
       \/ enroll_fee(t)
       \/ \E s \in ConcStudents : remove_pull(t, "b2", s)
       \/ remove_clear(t)
       \/ \E rows \in ConcBulkRequests : bulk_find(t, "b2", rows)
       \/ bulk_user(t)
       \/ bulk_newuser(t)
       \/ bulk_add(t)
       \/ bulk_fee(t)

SpecConc == Init /\ [][NextConc]_vars

\* SpecPayRace: two tasks record payments on the structures made by
\* create_fee_structure, each database call of one task between any two of
\* the other
RacePayAmounts == {1, 2}

NextPayRace ==
    \/ create_fee_structure("s1", Courses["b1"], "b1", 4 * Scale,
                            CallerInstallments(4 * Scale, "pending"), 0)
    \/ \E t \in Tasks :
          \/ \E id \in FeeIdArgs, a \in RacePayAmounts :
                pay_find(t, id, a * Scale)
          \/ \E m \in PaymentMethods, r \in ReceiptCodes : pay_insert(t, m, r)
          \/ pay_update(t)

SpecPayRace == Init /\ [][NextPayRace]_vars

\* SpecCrash: enroll and remove requests on batch b1, served one at a time
\* by two tasks, where the profile update of an enroll may fail
NextCrash ==
    \E t \in Tasks :
       \/ /\ \A u \in Tasks : Free(u)
          /\ \E s \in ConcStudents, op \in {"enroll_student",
                                           "enroll_student_in_batch"} :
                enroll_find(t, op, "b1", s, 0, 0, 0)
       \/ /\ \A u \in Tasks : Free(u)
          /\ \E s \in ConcStudents :
                enroll_find(t, "enroll_student_with_fees", "b1", s,
                            4 * Scale, 0, 2)
       \/ enroll_add(t)
       \/ enroll_profile(t)
       \/ enroll_fail(t)
       \/ enroll_fee(t)
       \/ /\ \A u \in Tasks : Free(u)
          /\ \E s \in ConcStudents : remove_pull(t, "b1", s)
       \/ remove_clear(t)

SpecCrash == Init /\ [][NextCrash]_vars

(* ------------------------------- claims -------------------------------- *)

\* a step is one handler call
Called == ncalls' = ncalls + 1

SingleEnrollOps ==
    {"enroll_student", "enroll_student_in_batch", "enroll_student_with_fees"}

Balanced(fee) ==
    fee.paid_amount + fee.pending_amount = fee.total_fee - fee.discount_applied

\* this step is a successful record_fee_payment on structure id
PaidStep(id) ==
    /\ Called
    /\ last'.op = "record_fee_payment"
    /\ last'.result = "ok"
    /\ last'.fee_structure_id = id

\* C1 as claimed: after every successful RecordPayment call, overpayments
\* included, the structure paid into has
\* paid_amount + pending_amount = total_fee - discount_applied.
C1_BalanceAfterEveryPayment ==
    (last.op = "record_fee_payment" /\ last.result = "ok")
        => Balanced(fee_structures[last.fee_structure_id])

\* C1 amended: a RecordPayment call whose amount does not exceed the
\* pending_amount of the structure at the call keeps
\* paid_amount + pending_amount = total_fee - discount_applied; a call whose
\* amount exceeds it raises paid_amount + pending_amount by the excess.
C1_BalanceUnlessOverpaid ==
    [][\A id \in DOMAIN fee_structures :
          PaidStep(id) =>
            LET old == fee_structures[id]
                new == fee_structures'[id]
                a   == last'.amount
            IN  /\ (a <= old.pending_amount /\ Balanced(old)) => Balanced(new)
                /\ new.paid_amount + new.pending_amount =
                     old.paid_amount + old.pending_amount
                       + Max(0, a - old.pending_amount)]_vars

\* two payments were recorded, the last of them a positive amount below the
\* pending amount, and the structure is balanced
C1_Witness ==
    /\ Len(fee_payments) = 2
    /\ last.op = "record_fee_payment"
    /\ last.result = "ok"
    /\ last.amount > 0
    /\ fee_structures[last.fee_structure_id].pending_amount > 0
    /\ Balanced(fee_structures[last.fee_structure_id])

\* C2 as claimed: the roster of a batch never holds more than max_students
\* students, whatever sequence of enroll, enroll-with-fees, bulk-enroll and
\* remove-student calls ran.
C2_RosterWithinCapacity ==
    \A b \in DOMAIN batches :
        Len(batches[b].enrolled_students) <= batches[b].max_students

\* C3 as claimed: an Enroll call that follows a successful Enroll call of the
\* same entry point with the same batch and student fails with
\* AlreadyEnrolled and leaves the roster as the first call left it.
C3_SecondEnrollRejected ==
    [][(/\ Called
        /\ last.op \in SingleEnrollOps
        /\ last.result = "ok"
        /\ last'.op = last.op
        /\ last'.batch_id = last.batch_id
        /\ last'.student_id = last.student_id)
       => (/\ last'.result = "AlreadyEnrolled"
           /\ batches' = batches)]_vars

\* C4: a single-enroll call on a batch whose roster size equals max_students
\* answers CapacityExceeded and changes neither the rosters, the profiles
\* nor the fee ledger.
C4_FullBatchRejects ==
    [][\A b \in DOMAIN batches :
          (/\ Called
           /\ last'.op \in SingleEnrollOps
           /\ last'.batch_id = b
           /\ Len(batches[b].enrolled_students) = batches[b].max_students)
          => (/\ last'.result = "CapacityExceeded"
              /\ batches' = batches
              /\ student_profiles' = student_profiles
              /\ fee_structures' = fee_structures
              /\ fee_payments' = fee_payments)]_vars

\* max_students = 2: s1 and s2 are enrolled, s3 was rejected
C4_Witness ==
    /\ last.op \in SingleEnrollOps
    /\ last.result = "CapacityExceeded"
    /\ last.batch_id = "b1"
    /\ last.student_id = "s3"
    /\ batches["b1"].max_students = 2
    /\ batches["b1"].enrolled_students = <<"s1", "s2">>

\* the structures a bulk-enroll call inserted: one per row that was
\* enrolled with total_fee > 0
BulkInserted(call) ==
    Cardinality({i \in 1..Len(call.rows) :
                   /\ call.rows[i].total_fee > 0
                   /\ \A e \in 1..Len(call.errors) : call.errors[e].row # i})

SumExact(fee) ==
    SumAmounts(fee.installments) = fee.total_fee - fee.discount_applied

\* C5 as claimed: the installment amounts of a structure created by
\* enroll-with-fees from valid amounts and an installment count >= 1, or by
\* a bulk-enroll row, add up to total_fee - discount exactly.
C5_InstallmentsSumExact ==
    /\ (/\ last.op = "enroll_student_with_fees"
        /\ last.result = "ok"
        /\ last.total_fee > 0
        /\ last.discount >= 0
        /\ last.discount <= last.total_fee
        /\ last.installments >= 1)
       => SumExact(fee_structures[Len(fee_structures)])
    /\ (last.op = "bulk_enroll_students" /\ last.result = "ok")
       => \A i \in 1..Len(fee_structures) :
             i > Len(fee_structures) - BulkInserted(last)
                => SumExact(fee_structures[i])

\* C6 as claimed: no fee structure ever has a negative pending_amount.
C6_PendingNonNegative ==
    \A i \in 1..Len(fee_structures) : fee_structures[i].pending_amount >= 0

\* C7: a successful RecordPayment adds the amount to paid_amount, stores
\* max(0, pending_amount - amount), appends one FeePayment carrying the
\* amount, the structure's id and its student_id, and leaves total_fee,
\* discount_applied and every other structure as they were.
C7_RecordPaymentEffect ==
    [][\A id \in DOMAIN fee_structures :
          PaidStep(id) =>
            LET old == fee_structures[id]
                new == fee_structures'[id]
                a   == last'.amount
                p   == fee_payments'[Len(fee_payments')]
            IN  /\ new.paid_amount = old.paid_amount + a
                /\ new.pending_amount =
                     (IF old.pending_amount - a > 0
                      THEN old.pending_amount - a ELSE 0)
                /\ Len(fee_payments') = Len(fee_payments) + 1
                /\ SubSeq(fee_payments', 1, Len(fee_payments)) = fee_payments
                /\ p.amount = a
                /\ p.fee_structure_id = id
                /\ p.student_id = old.student_id
                /\ new.total_fee = old.total_fee
                /\ new.discount_applied = old.discount_applied
                /\ Len(fee_structures') = Len(fee_structures)
                /\ \A j \in DOMAIN fee_structures :
                      j # id => fee_structures'[j] = fee_structures[j]]_vars

\* a payment above the pending amount was recorded while a second structure
\* exists: pending is clamped to 0 and paid exceeds the amount due
C7_Witness ==
    /\ last.op = "record_fee_payment"
    /\ last.result = "ok"
    /\ Len(fee_structures) = 2
    /\ fee_structures[last.fee_structure_id].pending_amount = 0
    /\ fee_structures[last.fee_structure_id].paid_amount >
          fee_structures[last.fee_structure_id].total_fee
            - fee_structures[last.fee_structure_id].discount_applied

\* C8: RecordPayment on an id no fee structure carries answers NotFound,
\* inserts no FeePayment and changes no fee structure.
C8_MissingStructureNotFound ==
    [][(/\ Called
        /\ last'.op = "record_fee_payment"
        /\ last'.fee_structure_id \notin 1..Len(fee_structures))
       => (/\ last'.result = "NotFound"
           /\ fee_payments' = fee_payments
           /\ fee_structures' = fee_structures)]_vars

\* a payment on a missing id was refused while a structure and a payment
\* exist
C8_Witness ==
    /\ last.op = "record_fee_payment"
    /\ last.result = "NotFound"
    /\ last.fee_structure_id > Len(fee_structures)
    /\ Len(fee_structures) = 1
    /\ Len(fee_payments) = 1

\* C9 as claimed: RecordPayment with amount <= 0 on an existing structure is
\* rejected with InvalidAmount and changes neither the structure nor the
\* fee payments.
C9_NonPositiveAmountRejected ==
    [][(/\ Called
        /\ last'.op = "record_fee_payment"
        /\ last'.fee_structure_id \in 1..Len(fee_structures)
        /\ last'.amount <= 0)
       => (/\ last'.result = "InvalidAmount"
           /\ fee_payments' = fee_payments
           /\ fee_structures' = fee_structures)]_vars

\* the fee parameters the constraints of CreateStructure exclude
BadFeeRequest(call) ==
    /\ call.op \in {"enroll_student_with_fees", "create_fee_structure"}
    /\ \/ call.total_fee < 0
       \/ call.discount < 0
       \/ call.discount > call.total_fee
       \/ call.installments < 1

ValidFee(fee) ==
    /\ fee.total_fee >= 0
    /\ fee.discount_applied >= 0
    /\ fee.discount_applied <= fee.total_fee

\* C10 as claimed: a creation request with total_fee < 0, discount < 0,
\* discount > total_fee or installment_count < 1 fails with InvalidAmount
\* and inserts no fee structure, so no stored structure (bulk rows
\* included) has such amounts.
C10_BadFeeRejected ==
    [][/\ (Called /\ BadFeeRequest(last'))
          => (/\ last'.result = "InvalidAmount"
              /\ fee_structures' = fee_structures)
       /\ \A i \in 1..Len(fee_structures') : ValidFee(fee_structures'[i])]_vars

\* C12 as claimed: a student id is in the roster of at most one batch.
C12_SingleActiveEnrollment ==
    \A s \in Students :
        Cardinality({b \in DOMAIN batches :
                        InSeq(s, batches[b].enrolled_students)}) <= 1

\* student s is enrolled in batch b as the Enroll effect describes it
EnrolledIn(b, s) ==
    /\ InSeq(s, batches[b].enrolled_students)
    /\ s \in DOMAIN student_profiles
    /\ student_profiles[s].batch_id = b
    /\ Cardinality({i \in 1..Len(student_profiles[s].enrolled_courses) :
                      student_profiles[s].enrolled_courses[i]
                        = batches[b].course_id}) = 1

\* C13 as claimed: after a successful enrollment of s into b through enroll,
\* enroll-with-fees or a bulk-enroll row, s is in b's roster, the profile of
\* s has batch_id = b and b's course is in its enrolled_courses once.
C13_EnrollmentEffect ==
    /\ (last.op \in SingleEnrollOps /\ last.result = "ok")
          => EnrolledIn(last.batch_id, last.student_id)
    /\ (last.op = "bulk_enroll_students" /\ last.result = "ok")
          => \A i \in 1..Len(last.rows) :
                (\A e \in 1..Len(last.errors) : last.errors[e].row # i)
                   => EnrolledIn(last.batch_id, last.rows[i].email)

\* this step is a remove-student call
RemoveStep == Called /\ last'.op = "remove_student_from_batch"

\* C14: RemoveStudent answers ok whether or not the student is in the
\* roster, leaves the student out of the roster with batch_id null, and a
\* second call with the same batch and student changes nothing.
C14_RemoveIdempotent ==
    [][RemoveStep =>
         LET b == last'.batch_id
             s == last'.student_id
         IN  /\ last'.result = "ok"
             /\ b \in DOMAIN batches
                   => ~InSeq(s, batches'[b].enrolled_students)
             /\ s \in DOMAIN student_profiles'
                   => student_profiles'[s].batch_id = "null"
             /\ (/\ last.op = "remove_student_from_batch"
                 /\ last.batch_id = b
                 /\ last.student_id = s)
                => (/\ batches' = batches
                    /\ student_profiles' = student_profiles
                    /\ users' = users
                    /\ fee_structures' = fee_structures
                    /\ fee_payments' = fee_payments)]_vars

\* s1 was enrolled in b1 (its course is kept) and removed again, while s2
\* stays in the roster
C14_Witness ==
    /\ last.op = "remove_student_from_batch"
    /\ last.batch_id = "b1"
    /\ last.student_id = "s1"
    /\ student_profiles["s1"].enrolled_courses = <<"c1">>
    /\ student_profiles["s1"].batch_id = "null"
    /\ batches["b1"].enrolled_students = <<"s2">>

\* C15: RemoveStudent leaves the enrolled_courses of every profile, every
\* fee structure, every fee payment and the rosters of the other batches as
\* they were.
C15_RemoveFrame ==
    [][RemoveStep =>
         /\ fee_structures' = fee_structures
         /\ fee_payments' = fee_payments
         /\ DOMAIN student_profiles' = DOMAIN student_profiles
         /\ \A s \in DOMAIN student_profiles :
               student_profiles'[s].enrolled_courses
                  = student_profiles[s].enrolled_courses
         /\ \A b \in DOMAIN batches :
               b # last'.batch_id => batches'[b] = batches[b]]_vars

\* s1 was enrolled with a fee, paid part of it and was removed: the course,
\* the structure with its amounts and the payment are still there
C15_Witness ==
    /\ last.op = "remove_student_from_batch"
    /\ last.student_id = "s1"
    /\ "s1" \in DOMAIN student_profiles
    /\ student_profiles["s1"].enrolled_courses # << >>
    /\ student_profiles["s1"].batch_id = "null"
    /\ Len(fee_payments) = 1
    /\ fee_payments[1].student_id = "s1"
    /\ Len(fee_structures) = 1
    /\ fee_structures[1].student_id = "s1"
    /\ fee_structures[1].paid_amount > 0
    /\ fee_structures[1].pending_amount > 0

\* C16: enroll-with-fees with total_fee = 0 enrolls the student and inserts
\* no fee structure; enroll-with-fees and bulk-enroll insert a structure
\* only for total_fee > 0, and every structure they insert has
\* paid_amount = 0 and pending_amount = total_fee - discount.
C16_FeeOnlyWhenPositive ==
    [][/\ (/\ Called
           /\ last'.op = "enroll_student_with_fees"
           /\ last'.result = "ok")
          => (/\ InSeq(last'.student_id,
                       batches'[last'.batch_id].enrolled_students)
              /\ last'.student_id \in DOMAIN student_profiles'
              /\ student_profiles'[last'.student_id].batch_id = last'.batch_id
              /\ last'.total_fee = 0 => fee_structures' = fee_structures)
       /\ (/\ Called
           /\ last'.op \in {"enroll_student_with_fees", "bulk_enroll_students"})
          => (/\ Len(fee_structures') - Len(fee_structures) =
                   (IF last'.op = "bulk_enroll_students"
                    THEN BulkInserted(last')
                    ELSE IF last'.result = "ok" /\ last'.total_fee > 0
                         THEN 1 ELSE 0)
              /\ SubSeq(fee_structures', 1, Len(fee_structures))
                   = fee_structures
              /\ \A i \in (Len(fee_structures) + 1)..Len(fee_structures') :
                    /\ fee_structures'[i].total_fee > 0
                    /\ fee_structures'[i].paid_amount = 0
                    /\ fee_structures'[i].pending_amount =
                          fee_structures'[i].total_fee
                            - fee_structures'[i].discount_applied)]_vars

\* s2 was enrolled in b1 without a fee and has no structure, next to s1 who
\* was enrolled with one
C16_Witness ==
    /\ last.op = "enroll_student_with_fees"
    /\ last.result = "ok"
    /\ last.total_fee = 0
    /\ last.student_id = "s2"
    /\ InSeq("s2", batches[last.batch_id].enrolled_students)
    /\ Len(fee_structures) = 1
    /\ fee_structures[1].student_id = "s1"
    /\ fee_structures[1].paid_amount = 0
    /\ fee_structures[1].pending_amount = fee_structures[1].total_fee

\* C17: fee payments are append-only: every step keeps every stored
\* FeePayment, with the same field values and at the same place.
C17_PaymentsAppendOnly ==
    [][/\ Len(fee_payments') >= Len(fee_payments)
       /\ SubSeq(fee_payments', 1, Len(fee_payments)) = fee_payments]_vars

\* a second payment was recorded after a first one
C17_Witness ==
    /\ Len(fee_payments) = 2
    /\ last.op = "record_fee_payment"
    /\ last.result = "ok"
    /\ fee_payments[1].amount # fee_payments[2].amount

\* C18 as claimed: no two fee payments carry the same receipt_number.
C18_ReceiptsUnique ==
    \A i, j \in 1..Len(fee_payments) :
        i # j => fee_payments[i].receipt_number # fee_payments[j].receipt_number

\* C20: a RecordPayment request delivered a second time (same structure,
\* same amount) is recorded again: a second FeePayment is inserted and
\* paid_amount rises by the amount once more.
C20_RetryChargesTwice ==
    [][(/\ Called
        /\ last.op = "record_fee_payment"
        /\ last.result = "ok"
        /\ last'.op = "record_fee_payment"
        /\ last'.fee_structure_id = last.fee_structure_id
        /\ last'.amount = last.amount)
       => LET id == last'.fee_structure_id
              a  == last'.amount
              n  == Len(fee_payments)
          IN  /\ last'.result = "ok"
              /\ Len(fee_payments') = n + 1
              /\ fee_payments'[n].fee_structure_id = id
              /\ fee_payments'[n].amount = a
              /\ fee_payments'[n + 1].fee_structure_id = id
              /\ fee_payments'[n + 1].amount = a
              /\ fee_structures'[id].paid_amount =
                    fee_structures[id].paid_amount + a]_vars

\* the same positive payment was recorded twice on a new structure: two
\* payment records, and paid_amount is twice the amount
C20_Witness ==
    /\ last.op = "record_fee_payment"
    /\ last.result = "ok"
    /\ last.amount > 0
    /\ Len(fee_payments) = 2
    /\ fee_payments[1].fee_structure_id = last.fee_structure_id
    /\ fee_payments[2].fee_structure_id = last.fee_structure_id
    /\ fee_payments[1].amount = last.amount
    /\ fee_payments[2].amount = last.amount
    /\ fee_structures[last.fee_structure_id].paid_amount = 2 * last.amount

\* C11: a student id appears at most once in a batch roster, whatever the
\* order of the database calls of concurrent enroll, enroll-with-fees,
\* bulk-enroll and remove-student requests.
C11_NoDuplicateInRoster ==
    \A b \in DOMAIN batches :
       \A i, j \in 1..Len(batches[b].enrolled_students) :
          i # j => batches[b].enrolled_students[i] #
                   batches[b].enrolled_students[j]

\* two requests added the same student to the same batch, both having read
\* the batch before the student was on it
C11_Witness ==
    \E t, u \in Tasks :
       /\ t # u
       /\ inflight[t].pc = "done" /\ inflight[t].req.result = "ok"
       /\ inflight[u].pc = "done" /\ inflight[u].req.result = "ok"
       /\ inflight[t].req.op = "enroll_student"
       /\ inflight[u].req.op = "bulk_enroll_students"
       /\ inflight[u].req.enrolled = 2
       /\ inflight[u].req.rows[1].email = inflight[t].req.student_id
       /\ inflight[u].req.rows[2].email = inflight[t].req.student_id
       /\ inflight[t].batch = inflight[u].batch
       /\ InSeq(inflight[t].req.student_id,
                batches[inflight[t].req.batch_id].enrolled_students)

\* C19: two enroll calls for different students, neither on the roster, on
\* one batch with exactly one free seat, both reading the batch before
\* either writes the roster: the second reader passes the capacity check as
\* the first did, the roster write of the second writer takes the roster
\* above max_students, and both calls return success.
EnrollTask(t, b) ==
    /\ inflight[t].req.op \in SingleEnrollOps
    /\ inflight[t].req.batch_id = b

OneSeatLeft(doc) ==
    Len(doc.enrolled_students) = doc.max_students - 1

C21_CapacityBeforeDuplicate ==
    [][(/\ Called
        /\ last'.op = "enroll_student_with_fees"
        /\ last'.batch_id \in DOMAIN batches)
       => LET doc  == batches[last'.batch_id]
              full == Len(doc.enrolled_students) >= doc.max_students
              dup  == InSeq(last'.student_id, doc.enrolled_students)
          IN  /\ (full /\ dup) => last'.result = "CapacityExceeded"
              /\ last'.result = "AlreadyEnrolled" <=> (dup /\ ~full)]_vars

\* a call for a student on the roster of a full batch was answered with
\* CapacityExceeded
C21_Witness ==
    /\ last.op = "enroll_student_with_fees"
    /\ last.result = "CapacityExceeded"
    /\ last.batch_id \in DOMAIN batches
    /\ InSeq(last.student_id, batches[last.batch_id].enrolled_students)

\* C22: RecordPayment never changes a structure's installments: the
\* installments of a stored structure are the same after every step, a
\* structure inserted by enroll-with-fees or bulk-enroll has only pending
\* installments, and a payment on a structure whose installments are all
\* pending carries installment_number 1.
AllPending(fee) ==
    \A i \in 1..Len(fee.installments) : fee.installments[i].status = "pending"

C22_InstallmentsNeverWritten ==
    [][/\ \A id \in 1..Len(fee_structures) :
             /\ id <= Len(fee_structures')
             /\ fee_structures'[id].installments =
                   fee_structures[id].installments
       /\ (/\ Called
           /\ last'.op \in {"enroll_student_with_fees", "bulk_enroll_students"})
          => \A id \in (Len(fee_structures) + 1)..Len(fee_structures') :
                AllPending(fee_structures'[id])
       /\ (/\ Called
           /\ last'.op = "record_fee_payment"
           /\ last'.result = "ok"
           /\ AllPending(fee_structures[last'.fee_structure_id]))
          => /\ Len(fee_payments') = Len(fee_payments) + 1
             /\ fee_payments'[Len(fee_payments')].installment_number = 1]_vars

\* two payments were recorded on a structure of several installments: all
\* of them are still pending and both payments carry number 1
C22_Witness ==
    /\ last.op = "record_fee_payment"
    /\ last.result = "ok"
    /\ Len(fee_payments) = 2
    /\ fee_payments[1].fee_structure_id = last.fee_structure_id
    /\ fee_payments[2].fee_structure_id = last.fee_structure_id
    /\ fee_payments[1].installment_number = 1
    /\ fee_payments[2].installment_number = 1
    /\ Len(fee_structures[last.fee_structure_id].installments) >= 2
    /\ AllPending(fee_structures[last.fee_structure_id])
    /\ fee_structures[last.fee_structure_id].paid_amount > 0

\* C23 as claimed: no RecordPayment call raises the pending_amount of a
\* structure, so a pending_amount of 0 stays 0.  Stated for the structures
\* whose pending_amount is not negative.
C23_PendingNeverIncreases ==
    [][(Called /\ last'.op = "record_fee_payment")
       => \A id \in 1..Len(fee_structures) :
             fee_structures[id].pending_amount >= 0
             => fee_structures'[id].pending_amount <=
                   fee_structures[id].pending_amount]_vars

\* C25: a student's enrolled_courses never shrinks: after every step each
\* profile is still there and holds every course id it held before.
C25_CoursesNeverShrink ==
    [][\A s \in DOMAIN student_profiles :
          /\ s \in DOMAIN student_profiles'
          /\ \A i \in 1..Len(student_profiles[s].enrolled_courses) :
                InSeq(student_profiles[s].enrolled_courses[i],
                      student_profiles'[s].enrolled_courses)]_vars

\* a student enrolled in two batches was removed: batch_id is cleared and
\* both courses are still on the profile
C25_Witness ==
    /\ last.op = "remove_student_from_batch"
    /\ last.student_id \in DOMAIN student_profiles
    /\ student_profiles[last.student_id].batch_id = "null"
    /\ Len(student_profiles[last.student_id].enrolled_courses) = 2

\* C26: with RecordPayment calls running one after another, the
\* paid_amount of every FeeStructure is the sum of the amounts of the
\* FeePayment records that reference it.
PaymentsOf(id) == SelectSeq(fee_payments, LAMBDA p : p.fee_structure_id = id)

C26_PaidIsSumOfPayments ==
    \A id \in 1..Len(fee_structures) :
       fee_structures[id].paid_amount = SumAmounts(PaymentsOf(id))

\* two payments on one structure, more than its total_fee together
C26_Witness ==
    /\ last.op = "record_fee_payment"
    /\ last.result = "ok"
    /\ Len(PaymentsOf(last.fee_structure_id)) = 2
    /\ fee_structures[last.fee_structure_id].total_fee > 0
    /\ fee_structures[last.fee_structure_id].paid_amount >
          fee_structures[last.fee_structure_id].total_fee

\* C29 as claimed: no two FeeStructures carry the same student and the same
\* batch.
C29_OneFeePerStudentBatch ==
    \A i, j \in 1..Len(fee_structures) :
       i # j => \/ fee_structures[i].student_id # fee_structures[j].student_id
                \/ fee_structures[i].batch_id # fee_structures[j].batch_id

\* C30 as claimed: an enroll-with-fees call that ends in an error leaves the
\* rosters, the profiles and the fee structures as they were.
C30_ErrorChangesNothing ==
    [][(/\ Called
        /\ last'.op = "enroll_student_with_fees"
        /\ last'.result # "ok")
       => /\ batches' = batches
          /\ student_profiles' = student_profiles
          /\ fee_structures' = fee_structures]_vars

\* C28 as claimed: a profile whose batch_id names a batch belongs to a
\* student on the roster of that batch, whatever the order of the database
\* calls of concurrent enroll, enroll-with-fees and remove-student requests.
\* Stated for the states in which every request has returned.
C28_ProfileBatchHasStudent ==
    (\A t \in Tasks : Free(t))
    => \A s \in DOMAIN student_profiles :
          student_profiles[s].batch_id # "null"
          => /\ student_profiles[s].batch_id \in DOMAIN batches
             /\ InSeq(s, batches[student_profiles[s].batch_id].enrolled_students)

\* C27 as claimed: no order of the database calls of two concurrent
\* RecordPayment calls loses a ledger update: when both have returned, the
\* paid_amount of the structure is the sum of the amounts of its payments
\* and its pending_amount is what is left of total_fee - discount.
C27_NoLostUpdate ==
    (\A t \in Tasks : Free(t))
    => \A id \in 1..Len(fee_structures) :
          LET fee == fee_structures[id]
          IN  /\ fee.paid_amount = SumAmounts(PaymentsOf(id))
              /\ fee.pending_amount =
                    Max(0, fee.total_fee - fee.discount_applied
                           - SumAmounts(PaymentsOf(id)))

\* the student is on the roster of b and the profile does not name b
Inconsistent(s, b) ==
    /\ InSeq(s, batches[b].enrolled_students)
    /\ s \in DOMAIN student_profiles => student_profiles[s].batch_id # b

\* the enroll request of task t ended between its two writes
Stopped(t) ==
    /\ inflight[t].pc = "done"
    /\ inflight[t].req.op \in SingleEnrollOps
    /\ inflight[t].req.result = "WriteFailed"

====
